---- MODULE Spec2Model ----
(***************************************************************************)
(* Retrieval core of backend-rag-bot: the VectorStore singleton            *)
(* (app/services/vector_store.py) with its three persisted artifacts, and  *)
(* the RAGService orchestration (app/services/rag_service.py) with the     *)
(* process-wide conversation_store.                                        *)
(*                                                                         *)
(* Every request handler of the API layer is an `async def` that calls the *)
(* service synchronously, so one handler runs to completion on the event   *)
(* loop before the next starts: one action per handler (SpecStore and      *)
(* SpecAsk).  The store itself takes no lock; SpecRace runs search against *)
(* remove_document and clear statement by statement, as two threads that   *)
(* call the singleton would.                                               *)
(***************************************************************************)
EXTENDS Integers, Sequences, FiniteSets, TLC

VARIABLES
    index,              \* VectorStore.index: None or a flat L2 index
    documents,          \* VectorStore.documents
    metadata,           \* VectorStore.metadata
    index_faiss,        \* artifact <vector_store_path>/index.faiss
    documents_pkl,      \* artifact <vector_store_path>/documents.pkl
    metadata_pkl,       \* artifact <vector_store_path>/metadata.pkl
    conversation_store, \* rag_service.conversation_store
    turn_log,           \* per session, every turn recorded since the start
    last,               \* the last call: operation, arguments, outcome
    faults,             \* number of injected collaborator failures so far
    asks,               \* number of ask_question calls so far
    searcher,           \* a thread inside VectorStore.search: position, locals
    remover,            \* a thread inside remove_document or clear
    calls               \* number of store calls the two threads have started

vars == <<index, documents, metadata, index_faiss, documents_pkl,
          metadata_pkl, conversation_store, turn_log, last, faults, asks,
          searcher, remover, calls>>

conv_vars == <<conversation_store, turn_log, asks>>

disk_vars == <<index_faiss, documents_pkl, metadata_pkl>>

race_vars == <<searcher, remover, calls>>

----------------------------------------------------------------------------
(* Bounds *)

MaxChunks == 4      \* chunks held in memory
MaxFaults == 1      \* injected failures (encode, index.add, file write)
MaxK == 2           \* k of a direct search
MaxAsk == 7         \* ask_question calls in one run
MaxVec == 1         \* embedding values are 0..MaxVec
MaxCalls == 3       \* store calls started by the two threads in one run

\* The files users upload, and the chunk texts the document processor
\* yields for each (e.txt has no text).
Filenames == {"f.txt", "g.txt", "h.txt"}
Uploads == Filenames \cup {"e.txt"}

\* s repeated n times
RECURSIVE Repeat(_, _)
Repeat(s, n) ==
    IF n = 0 THEN ""
    ELSE IF n % 2 = 0 THEN Repeat(s \o s, n \div 2)
    ELSE s \o Repeat(s \o s, n \div 2)

ChunkSize == 500    \* chunk_size: the longest chunk the splitter yields

\* The two chunks of f.txt: a full one and one a character shorter.
FullChunk == Repeat("a", ChunkSize)
ShortChunk == Repeat("b", ChunkSize - 1)

FileChunks(filename) ==
    CASE filename = "e.txt" -> <<>>
      [] filename = "f.txt" -> <<FullChunk, ShortChunk>>
      [] filename = "g.txt" -> <<"abc">>
      [] filename = "h.txt" -> <<"a">>

Queries == {"q", "what"}
Vectors == 0..MaxVec

----------------------------------------------------------------------------
(* Embedding provider *)

\* SentenceTransformer.encode: deterministic, one vector per text.  The
\* vector space is abstracted to 0..MaxVec.
Embed(text) == Len(text) % (MaxVec + 1)

\* Squared L2 distance, as IndexFlatL2 reports it.
L2(a, b) == (a - b) * (a - b)

\* A distance larger than any real one: the score of a padding entry.
Inf == (MaxVec + 1) * (MaxVec + 1)

\* create_embeddings(texts): encode, or on any exception of encode the
\* random fallback rnd (np.random.randn), one vector per text.
create_embeddings(texts, encode_fails, rnd) ==
    IF texts = <<>> THEN <<>>
    ELSE IF ~encode_fails THEN [i \in 1..Len(texts) |-> Embed(texts[i])]
    ELSE rnd

\* The outcomes of np.random.randn for n texts.
RandomEmbeddings(n) == [1..n -> Vectors]

----------------------------------------------------------------------------
(* Vector index (faiss.IndexFlatL2) *)

NoneIndex == [none |-> TRUE, vectors |-> <<>>]
IndexFlatL2 == [none |-> FALSE, vectors |-> <<>>]

ntotal(ix) == Len(ix.vectors)

index_add(ix, embeddings) == [ix EXCEPT !.vectors = @ \o embeddings]

\* Ordinal (0-based) of the nearest vector among the ordinals S; ties go to
\* the lower ordinal.
Nearest(S, vectors, q) ==
    CHOOSE i \in S : \A j \in S :
        \/ L2(vectors[i + 1], q) < L2(vectors[j + 1], q)
        \/ L2(vectors[i + 1], q) = L2(vectors[j + 1], q) /\ i <= j

RECURSIVE Ranked(_, _, _)
Ranked(S, vectors, q) ==
    IF S = {} THEN <<>>
    ELSE LET b == Nearest(S, vectors, q)
         IN <<[distance |-> L2(vectors[b + 1], q), idx |-> b]>>
                \o Ranked(S \ {b}, vectors, q)

\* index.search(query_embedding, k): k entries, nearest first, padded with
\* idx = -1 when the index holds fewer than k vectors.
index_search(ix, q, k) ==
    LET r == Ranked(0..(ntotal(ix) - 1), ix.vectors, q)
    IN [i \in 1..k |-> IF i <= Len(r) THEN r[i]
                       ELSE [distance |-> Inf, idx |-> -1]]

----------------------------------------------------------------------------
(* Chunk and metadata records *)

upload_folder == "./data/documents"

\* The record upload_document builds for chunk number chunk_id of a file.
Chunk(text, filename, chunk_id, total_chunks) ==
    [text |-> text, filename |-> filename, file_type |-> "txt",
     file_path |-> upload_folder \o "/" \o filename,
     chunk_id |-> chunk_id, total_chunks |-> total_chunks]

\* {"doc_id": doc_id, **doc}
Meta(doc_id, doc) ==
    [doc_id |-> doc_id, text |-> doc.text, filename |-> doc.filename,
     file_type |-> doc.file_type, file_path |-> doc.file_path,
     chunk_id |-> doc.chunk_id, total_chunks |-> doc.total_chunks]

\* The chunk a metadata record describes (the record without doc_id).
ChunkOf(m) ==
    [text |-> m.text, filename |-> m.filename, file_type |-> m.file_type,
     file_path |-> m.file_path, chunk_id |-> m.chunk_id,
     total_chunks |-> m.total_chunks]

\* documents_for_store of upload_document for the chunk texts of one file.
DocumentsForStore(filename, texts) ==
    [i \in 1..Len(texts) |-> Chunk(texts[i], filename, i - 1, Len(texts))]

TextsOf(docs) == [i \in 1..Len(docs) |-> docs[i].text]

----------------------------------------------------------------------------
(* Persistence: three artifacts, each absent or holding what was written *)

Absent == [exists |-> FALSE, data |-> <<>>]
File(data) == [exists |-> TRUE, data |-> data]

\* One write of save_index: it succeeds ("ok"), or it raises and the
\* artifact keeps what it held ("keep"; the exception is caught and printed).
Write(old, data, outcome) == IF outcome = "ok" THEN File(data) ELSE old

Mem(ix, docs, meta) == [index |-> ix, documents |-> docs, metadata |-> meta]
Disk(fi, fd, fm) == [index_faiss |-> fi, documents_pkl |-> fd, metadata_pkl |-> fm]

EmptyMem == Mem(NoneIndex, <<>>, <<>>)
NoDisk == Disk(Absent, Absent, Absent)

\* save_index: nothing is written when the index is None; each write's
\* exception is caught on its own.
save_index(mem, disk, w) ==
    IF ~mem.index.none
    THEN Disk(Write(disk.index_faiss, mem.index.vectors, w[1]),
              Write(disk.documents_pkl, mem.documents, w[2]),
              Write(disk.metadata_pkl, mem.metadata, w[3]))
    ELSE disk

\* load_index keeping what it had read when the read of metadata.pkl raises.
load_index_partial(mem, disk, read_fails) ==
    IF disk.index_faiss.exists /\ disk.documents_pkl.exists
    THEN IF read_fails = 0 /\ disk.metadata_pkl.exists
         THEN Mem([none |-> FALSE, vectors |-> disk.index_faiss.data],
                  disk.documents_pkl.data, disk.metadata_pkl.data)
         ELSE IF read_fails = 3
         THEN Mem([none |-> FALSE, vectors |-> disk.index_faiss.data],
                  disk.documents_pkl.data, mem.metadata)
         ELSE EmptyMem
    ELSE mem

\* load_index whose exception handler resets the index only: the documents
\* read before the failing read of metadata.pkl stay in memory.
load_index_reset_index_only(mem, disk, read_fails) ==
    IF disk.index_faiss.exists /\ disk.documents_pkl.exists
    THEN IF read_fails = 0 /\ disk.metadata_pkl.exists
         THEN Mem([none |-> FALSE, vectors |-> disk.index_faiss.data],
                  disk.documents_pkl.data, disk.metadata_pkl.data)
         ELSE IF read_fails = 3 \/ (read_fails = 0 /\ ~disk.metadata_pkl.exists)
         THEN Mem(NoneIndex, disk.documents_pkl.data, mem.metadata)
         ELSE Mem(NoneIndex, mem.documents, mem.metadata)
    ELSE mem

\* load_index: reads the three artifacts when index.faiss and documents.pkl
\* exist; any exception (a missing metadata.pkl, or read number read_fails
\* raising; 0 = none does) resets the three structures; when an artifact is
\* missing, memory is left as it is.
load_index(mem, disk, read_fails) ==
    IF disk.index_faiss.exists /\ disk.documents_pkl.exists
    THEN IF read_fails = 0 /\ disk.metadata_pkl.exists
         THEN Mem([none |-> FALSE, vectors |-> disk.index_faiss.data],
                  disk.documents_pkl.data, disk.metadata_pkl.data)
         ELSE EmptyMem
    ELSE mem

----------------------------------------------------------------------------
(* VectorStore operations, as functions of memory, disk and the outcomes   *)
(* of the collaborators (encoder, index insertion, file writes)            *)

AllOk == <<"ok", "ok", "ok">>

\* doc_id of every metadata record of a batch: len(self.documents) - 1,
\* evaluated after the whole batch has been appended to documents.
BatchDocId(new_documents) == Len(new_documents) - 1

\* add_documents(documents).  raised: an exception left the method.
add_documents(mem, disk, docs, encode_fails, rnd, add_fails, w) ==
    IF docs = <<>>
    THEN [mem |-> mem, disk |-> disk, raised |-> FALSE]
    ELSE LET embeddings == create_embeddings(TextsOf(docs), encode_fails, rnd)
             ix0 == IF mem.index.none THEN IndexFlatL2 ELSE mem.index
         IN IF add_fails
            THEN [mem |-> Mem(ix0, mem.documents, mem.metadata),
                  disk |-> disk, raised |-> TRUE]
            ELSE LET ix1 == index_add(ix0, embeddings)
                     new_documents == mem.documents \o docs
                     new_metadata == mem.metadata \o
                        [i \in 1..Len(docs) |->
                            Meta(BatchDocId(new_documents), docs[i])]
                     mem1 == Mem(ix1, new_documents, new_metadata)
                 IN [mem |-> mem1, disk |-> save_index(mem1, disk, w),
                     raised |-> FALSE]

\* keep_indices of remove_document, as 1-based positions in order.
RECURSIVE keep_indices(_, _, _)
keep_indices(docs, filename, i) ==
    IF i > Len(docs) THEN <<>>
    ELSE (IF docs[i].filename # filename THEN <<i>> ELSE <<>>)
            \o keep_indices(docs, filename, i + 1)

\* remove_document without the "not found" return: it rebuilds and saves.
remove_document_rebuild(mem, disk, filename, encode_fails, rnd, w) ==
    IF mem.documents = <<>>
    THEN [mem |-> mem, disk |-> disk, ret |-> FALSE, raised |-> FALSE]
    ELSE LET keep == keep_indices(mem.documents, filename, 1)
         IN IF \E j \in 1..Len(keep) : keep[j] > Len(mem.metadata)
            THEN [mem |-> mem, disk |-> disk, ret |-> FALSE, raised |-> TRUE]
            ELSE LET new_documents == [j \in 1..Len(keep) |-> mem.documents[keep[j]]]
                     new_metadata == [j \in 1..Len(keep) |-> mem.metadata[keep[j]]]
                     mem1 == Mem(IF new_documents # <<>> THEN mem.index
                                 ELSE NoneIndex,
                                 new_documents, new_metadata)
                 IN [mem |-> mem1, disk |-> save_index(mem1, disk, w),
                     ret |-> TRUE, raised |-> FALSE]

\* remove_document giving every kept metadata record its new position as
\* doc_id.
remove_document_renumber(mem, disk, filename, encode_fails, rnd, w) ==
    IF mem.documents = <<>>
    THEN [mem |-> mem, disk |-> disk, ret |-> FALSE, raised |-> FALSE]
    ELSE LET keep == keep_indices(mem.documents, filename, 1)
         IN IF Len(keep) = Len(mem.documents)
            THEN [mem |-> mem, disk |-> disk, ret |-> FALSE, raised |-> FALSE]
            ELSE IF \E j \in 1..Len(keep) : keep[j] > Len(mem.metadata)
            THEN [mem |-> mem, disk |-> disk, ret |-> FALSE, raised |-> TRUE]
            ELSE LET new_documents == [j \in 1..Len(keep) |-> mem.documents[keep[j]]]
                     new_metadata == [j \in 1..Len(keep) |->
                        [mem.metadata[keep[j]] EXCEPT !.doc_id = j - 1]]
                     new_index ==
                        IF new_documents # <<>>
                        THEN index_add(IndexFlatL2,
                                create_embeddings(TextsOf(new_documents),
                                                  encode_fails, rnd))
                        ELSE NoneIndex
                     mem1 == Mem(new_index, new_documents, new_metadata)
                 IN [mem |-> mem1, disk |-> save_index(mem1, disk, w),
                     ret |-> TRUE, raised |-> FALSE]

\* remove_document(filename).  raised: self.metadata[i] is out of range for
\* a kept position (IndexError, before anything is assigned).
remove_document(mem, disk, filename, encode_fails, rnd, w) ==
    IF mem.documents = <<>>
    THEN [mem |-> mem, disk |-> disk, ret |-> FALSE, raised |-> FALSE]
    ELSE LET keep == keep_indices(mem.documents, filename, 1)
         IN IF Len(keep) = Len(mem.documents)
            THEN [mem |-> mem, disk |-> disk, ret |-> FALSE, raised |-> FALSE]
            ELSE IF \E j \in 1..Len(keep) : keep[j] > Len(mem.metadata)
            THEN [mem |-> mem, disk |-> disk, ret |-> FALSE, raised |-> TRUE]
            ELSE LET new_documents == [j \in 1..Len(keep) |-> mem.documents[keep[j]]]
                     new_metadata == [j \in 1..Len(keep) |-> mem.metadata[keep[j]]]
                     new_index ==
                        IF new_documents # <<>>
                        THEN index_add(IndexFlatL2,
                                create_embeddings(TextsOf(new_documents),
                                                  encode_fails, rnd))
                        ELSE NoneIndex
                     mem1 == Mem(new_index, new_documents, new_metadata)
                 IN [mem |-> mem1, disk |-> save_index(mem1, disk, w),
                     ret |-> TRUE, raised |-> FALSE]

\* clear that empties memory and leaves the artifacts.
clear_memory_only(mem, disk) == [mem |-> EmptyMem, disk |-> disk]

\* clear(): memory emptied, the three artifacts deleted.
clear(mem, disk) == [mem |-> EmptyMem, disk |-> NoDisk]

\* An entry of the index's answer that the results loop accepts.
Accepted(entry, mem) == entry.idx >= 0 /\ entry.idx < Len(mem.documents)

\* The results loop of search: entries whose idx is a position of documents.
RECURSIVE Results(_, _, _)
Results(found, mem, i) ==
    IF i > Len(found) THEN <<>>
    ELSE (IF Accepted(found[i], mem)
          THEN <<[document |-> mem.documents[found[i].idx + 1],
                  metadata |-> mem.metadata[found[i].idx + 1],
                  score |-> found[i].distance,
                  rank |-> i]>>
          ELSE <<>>)
         \o Results(found, mem, i + 1)

\* search asking the index for one neighbour more than k.
search_one_more(mem, disk, query, k, read_fails, encode_fails, rnd) ==
    LET mem1 == IF mem.index.none THEN load_index(mem, disk, read_fails) ELSE mem
    IN IF mem1.index.none \/ Len(mem1.documents) = 0
       THEN [mem |-> mem1, results |-> <<>>, raised |-> FALSE]
       ELSE LET query_embedding == create_embeddings(<<query>>, encode_fails, rnd)
                found == index_search(mem1.index, query_embedding[1], k + 1)
            IN IF \E i \in 1..Len(found) :
                    Accepted(found[i], mem1) /\ found[i].idx >= Len(mem1.metadata)
               THEN [mem |-> mem1, results |-> <<>>, raised |-> TRUE]
               ELSE [mem |-> mem1, results |-> Results(found, mem1, 1),
                     raised |-> FALSE]

\* search(query, k): loads from disk when the index is None.  raised:
\* self.metadata[idx] is out of range for an accepted entry (IndexError).
search(mem, disk, query, k, read_fails, encode_fails, rnd) ==
    LET mem1 == IF mem.index.none THEN load_index(mem, disk, read_fails) ELSE mem
    IN IF mem1.index.none
       THEN [mem |-> mem1, results |-> <<>>, raised |-> FALSE]
       ELSE IF Len(mem1.documents) = 0
       THEN [mem |-> mem1, results |-> <<>>, raised |-> FALSE]
       ELSE LET query_embedding == create_embeddings(<<query>>, encode_fails, rnd)
                found == index_search(mem1.index, query_embedding[1], k)
            IN IF \E i \in 1..Len(found) :
                    Accepted(found[i], mem1) /\ found[i].idx >= Len(mem1.metadata)
               THEN [mem |-> mem1, results |-> <<>>, raised |-> TRUE]
               ELSE [mem |-> mem1, results |-> Results(found, mem1, 1),
                     raised |-> FALSE]

\* get_document_count counting chunks.
get_document_count_chunks(docs) == Len(docs)

\* RAGService.get_document_count: the number of distinct filenames.
get_document_count(docs) ==
    IF docs = <<>> THEN 0
    ELSE Cardinality({docs[i].filename : i \in 1..Len(docs)} \ {""})

----------------------------------------------------------------------------
(* State, and the record of the last call *)

CurMem == Mem(index, documents, metadata)
CurDisk == Disk(index_faiss, documents_pkl, metadata_pkl)

SetMem(mem) ==
    /\ index' = mem.index
    /\ documents' = mem.documents
    /\ metadata' = mem.metadata

SetDisk(disk) ==
    /\ index_faiss' = disk.index_faiss
    /\ documents_pkl' = disk.documents_pkl
    /\ metadata_pkl' = disk.metadata_pkl

NoCall ==
    [op |-> "init", filename |-> "", ret |-> FALSE, raised |-> FALSE,
     encode_failed |-> FALSE, add_failed |-> FALSE, writes |-> AllOk,
     read_failed |-> FALSE, llm_failed |-> FALSE,
     question |-> "", session_id |-> "", search_query |-> "",
     results |-> <<>>,
     prompt |-> [history |-> "", context |-> "", question |-> ""],
     reply |-> [success |-> FALSE, answer |-> "", sources |-> <<>>,
                relevant_chunks |-> 0, error |-> ""]]

\* The outcomes of one save_index: every write succeeds, or the write of
\* documents.pkl raises; its exception is caught on its own, so the other
\* two artifacts are still written.
WriteSeqs == {AllOk, <<"ok", "keep", "ok">>}

\* Every failure is drawn from the budget MaxFaults.
Cost(flag) == IF flag THEN 1 ELSE 0
Failed(w) == Cost(w # AllOk)
FaultCost(encode_fails, add_fails, w) ==
    Cost(encode_fails) + Cost(add_fails) + Failed(w)

\* The failures a remaining budget b allows.
Flags(b) == IF b >= 1 THEN BOOLEAN ELSE {FALSE}
Writes(b) == {w \in WriteSeqs : Failed(w) <= b}
Reads(b) == IF b >= 1 THEN 0..3 ELSE {0}
Budget == MaxFaults - faults

\* The random vectors drawn when encode raises for n texts.
Rnd(encode_fails, n) == IF encode_fails THEN RandomEmbeddings(n) ELSE {<<>>}

\* The two threads of the interleaved runs, outside any call.
NoSearch ==
    [pc |-> "idle", query |-> "", k |-> 0, ntotal |-> 0, ndocs |-> 0,
     found |-> <<>>, i |-> 0, results |-> <<>>, raised |-> FALSE]

NoRemove ==
    [pc |-> "idle", op |-> "", filename |-> "", new_documents |-> <<>>,
     new_metadata |-> <<>>, ret |-> FALSE, raised |-> FALSE]

Init ==
    /\ index = NoneIndex
    /\ documents = <<>>
    /\ metadata = <<>>
    /\ index_faiss = Absent
    /\ documents_pkl = Absent
    /\ metadata_pkl = Absent
    /\ conversation_store = [s \in {} |-> <<>>]
    /\ turn_log = [s \in {} |-> <<>>]
    /\ asks = 0
    /\ last = NoCall
    /\ faults = 0
    /\ searcher = NoSearch
    /\ remover = NoRemove
    /\ calls = 0

----------------------------------------------------------------------------
(* Handlers of the document store *)

\* RAGService.upload_document: the chunks of one file go to add_documents;
\* an exception is caught and reported as success = False.
upload_document(filename, encode_fails, rnd, add_fails, w) ==
    /\ Len(documents) + Len(FileChunks(filename)) <= MaxChunks
    /\ faults + FaultCost(encode_fails, add_fails, w) <= MaxFaults
    /\ LET batch == DocumentsForStore(filename, FileChunks(filename))
           r == add_documents(CurMem, CurDisk, batch, encode_fails, rnd,
                              add_fails, w)
       IN /\ SetMem(r.mem)
          /\ SetDisk(r.disk)
          /\ last' = [NoCall EXCEPT !.op = "add_documents",
                        !.filename = filename,
                        !.ret = ~r.raised, !.raised = r.raised,
                        !.encode_failed = encode_fails,
                        !.add_failed = add_fails, !.writes = w]
    /\ faults' = faults + FaultCost(encode_fails, add_fails, w)
    /\ UNCHANGED <<conv_vars, race_vars>>

\* RAGService.delete_document: remove_document, False when it raises.
delete_document(filename, encode_fails, rnd, w) ==
    /\ faults + FaultCost(encode_fails, FALSE, w) <= MaxFaults
    /\ LET r == remove_document(CurMem, CurDisk, filename, encode_fails, rnd, w)
       IN /\ SetMem(r.mem)
          /\ SetDisk(r.disk)
          /\ last' = [NoCall EXCEPT !.op = "remove_document",
                        !.filename = filename, !.ret = r.ret,
                        !.raised = r.raised,
                        !.encode_failed = encode_fails, !.writes = w]
    /\ faults' = faults + FaultCost(encode_fails, FALSE, w)
    /\ UNCHANGED <<conv_vars, race_vars>>

\* RAGService.clear_documents: VectorStore.clear.
clear_documents ==
    /\ LET r == clear(CurMem, CurDisk)
       IN /\ SetMem(r.mem)
          /\ SetDisk(r.disk)
    /\ last' = [NoCall EXCEPT !.op = "clear", !.ret = TRUE]
    /\ UNCHANGED <<conv_vars, faults, race_vars>>

\* A VectorStore.search(query, k) call.  Its effect on the state is the
\* load_index it triggers when the index is None; what it returns is
\* search(CurMem, CurDisk, query, k, ...).results, for every query and k.
Search(read_fails) ==
    /\ faults + Cost(read_fails # 0) <= MaxFaults
    /\ SetMem(search(CurMem, CurDisk, "", 1, read_fails, FALSE, <<>>).mem)
    /\ last' = [NoCall EXCEPT !.op = "search", !.ret = TRUE,
                    !.read_failed = (read_fails # 0 /\ index.none)]
    /\ faults' = faults + Cost(read_fails # 0)
    /\ UNCHANGED <<disk_vars, conv_vars, race_vars>>

\* The process is restarted: VectorStore.__init__ runs again (empty
\* structures, then load_index) and conversation_store is a new dict.
Restart(read_fails) ==
    /\ faults + Cost(read_fails # 0) <= MaxFaults
    /\ SetMem(load_index(EmptyMem, CurDisk, read_fails))
    /\ conversation_store' = [s \in {} |-> <<>>]
    /\ turn_log' = [s \in {} |-> <<>>]
    /\ UNCHANGED <<asks, race_vars>>
    /\ last' = [NoCall EXCEPT !.op = "restart",
                    !.read_failed = (read_fails # 0)]
    /\ faults' = faults + Cost(read_fails # 0)
    /\ UNCHANGED <<disk_vars, race_vars>>

NextStore ==
    \/ \E filename \in Uploads, encode_fails \in Flags(Budget) :
          \E add_fails \in Flags(Budget - Cost(encode_fails)) :
             \E w \in Writes(Budget - Cost(encode_fails) - Cost(add_fails)),
                rnd \in Rnd(encode_fails, Len(FileChunks(filename))) :
                upload_document(filename, encode_fails, rnd, add_fails, w)
    \/ \E filename \in Filenames, encode_fails \in Flags(Budget) :
          \E w \in Writes(Budget - Cost(encode_fails)),
             rnd \in Rnd(encode_fails,
                         Len(keep_indices(documents, filename, 1))) :
             delete_document(filename, encode_fails, rnd, w)
    \/ clear_documents
    \/ \E read_fails \in Reads(Budget) : Search(read_fails)
    \/ \E read_fails \in Reads(Budget) : Restart(read_fails)

SpecStore == Init /\ [][NextStore]_vars

----------------------------------------------------------------------------
(* String helpers of ask_question *)

LowerChar(c) ==
    CASE c = "A" -> "a" [] c = "B" -> "b" [] c = "C" -> "c" [] c = "D" -> "d"
      [] c = "E" -> "e" [] c = "F" -> "f" [] c = "G" -> "g" [] c = "H" -> "h"
      [] c = "I" -> "i" [] c = "J" -> "j" [] c = "K" -> "k" [] c = "L" -> "l"
      [] c = "M" -> "m" [] c = "N" -> "n" [] c = "O" -> "o" [] c = "P" -> "p"
      [] c = "Q" -> "q" [] c = "R" -> "r" [] c = "S" -> "s" [] c = "T" -> "t"
      [] c = "U" -> "u" [] c = "V" -> "v" [] c = "W" -> "w" [] c = "X" -> "x"
      [] c = "Y" -> "y" [] c = "Z" -> "z" [] OTHER -> c

\* str.lower()
RECURSIVE lower(_)
lower(s) ==
    IF Len(s) = 0 THEN ""
    ELSE LowerChar(SubSeq(s, 1, 1)) \o lower(SubSeq(s, 2, Len(s)))

\* `sub in s` for strings
Contains(s, sub) ==
    \E i \in 1..(Len(s) - Len(sub) + 1) : SubSeq(s, i, i + Len(sub) - 1) = sub

\* s[:n]
Prefix(s, n) == IF Len(s) <= n THEN s ELSE SubSeq(s, 1, n)

\* seq[-n:]
LastN(seq, n) ==
    IF Len(seq) <= n THEN seq ELSE SubSeq(seq, Len(seq) - n + 1, Len(seq))

\* sep.join(parts)
RECURSIVE Join(_, _)
Join(parts, sep) ==
    IF parts = <<>> THEN ""
    ELSE IF Len(parts) = 1 THEN parts[1]
    ELSE parts[1] \o sep \o Join(Tail(parts), sep)

----------------------------------------------------------------------------
(* RAGService.ask_question *)

DefaultK == 10          \* k: int = 10
MaxTurns == 5           \* turns kept per session
HistoryTurns == 2       \* turns shown in the history block
TopMatches == 3         \* matches kept per source file
SnippetLen == 200       \* characters of a match text
AnswerLen == 150        \* characters of a previous answer in the history
FallbackLen == 1000     \* characters of context in the degraded answer

PyNone == "<None>"

SessionIds == {"default", "s2"}
Questions == {"How many days of leave?", "What about THOSE days?"}

vague_indicators == <<"those", "they", "them", "it", "this", "that">>

\* any(indicator in question.lower() for indicator in vague_indicators)
IsVague(question) ==
    \E i \in 1..Len(vague_indicators) :
        Contains(lower(question), vague_indicators[i])

\* IsVague over the questions asked, computed once.
VagueQuestions == {q \in Questions : IsVague(q)}

\* SearchQuery expanding every question of a session that has a turn.
SearchQueryAlways(question, session_id, store) ==
    IF session_id \in DOMAIN store
    THEN IF store[session_id] # <<>>
         THEN store[session_id][Len(store[session_id])].question
                \o " " \o question
         ELSE question
    ELSE question

\* The text ask_question passes to vector_store.search.
SearchQuery(question, session_id, store) ==
    IF question \in VagueQuestions /\ session_id \in DOMAIN store
    THEN IF store[session_id] # <<>>
         THEN store[session_id][Len(store[session_id])].question
                \o " " \o question
         ELSE question
    ELSE question

\* Filenames of the results in order of first appearance (the key order of
\* the dict sources_by_file).
RECURSIVE SourceFiles(_, _, _)
SourceFiles(results, i, seen) ==
    IF i > Len(results) THEN <<>>
    ELSE LET filename == results[i].document.filename
         IN IF filename \in seen THEN SourceFiles(results, i + 1, seen)
            ELSE <<filename>> \o SourceFiles(results, i + 1, seen \cup {filename})

\* sources_by_file[filename]["matches"]: one match per result of the file.
RECURSIVE Matches(_, _, _)
Matches(results, filename, i) ==
    IF i > Len(results) THEN <<>>
    ELSE (IF results[i].document.filename = filename
          THEN <<[text |-> Prefix(results[i].document.text, SnippetLen) \o "...",
                  chunk_id |-> results[i].document.chunk_id]>>
          ELSE <<>>)
         \o Matches(results, filename, i + 1)

\* The whole list, whatever n.
TakeAll(seq, n) == seq

\* s[:n] for a list
Take(seq, n) == IF Len(seq) <= n THEN seq ELSE SubSeq(seq, 1, n)

Sources(results) ==
    LET files == SourceFiles(results, 1, {})
    IN [j \in 1..Len(files) |->
            [filename |-> files[j],
             matches |-> Take(Matches(results, files[j], 1), TopMatches)]]

\* "\n\n".join(context_parts)
Context(results) ==
    Join([i \in 1..Len(results) |-> results[i].document.text], "\n\n")

RECURSIVE HistoryBlock(_)
HistoryBlock(turns) ==
    IF turns = <<>> THEN ""
    ELSE "Previous Question: " \o turns[1].question
            \o "\nPrevious Answer: " \o Prefix(turns[1].answer, AnswerLen)
            \o "...\n\n" \o HistoryBlock(Tail(turns))

\* history_text built from every stored turn of the session.
HistoryTextAll(session_id, store) ==
    IF session_id \in DOMAIN store
    THEN HistoryBlock(store[session_id])
    ELSE ""

\* history_text built from the turns of the session "default", whichever
\* session asks.
HistoryTextDefault(session_id, store) ==
    IF "default" \in DOMAIN store
    THEN HistoryBlock(LastN(store["default"], HistoryTurns))
    ELSE ""

\* history_text of ask_question
HistoryText(session_id, store) ==
    IF session_id \in DOMAIN store
    THEN HistoryBlock(LastN(store[session_id], HistoryTurns))
    ELSE ""

\* The answers of the language model (ollama.generate), or its failure.
LLMResponses == {"You get 20 days."}
LLMOutcomes == {[ok |-> FALSE, response |-> ""]}
                \cup {[ok |-> TRUE, response |-> r] : r \in LLMResponses}

\* _generate_answer_with_llm: the prompt carries history, context and the
\* question; a failure of the model gives the truncated raw context.
Prompt(question, context, history) ==
    [history |-> history, context |-> context, question |-> question]

NoPrompt == Prompt("", "", "")

\* The degraded answer carrying the whole context.
generate_answer_whole_context(question, context, history, llm) ==
    IF llm.ok THEN llm.response
    ELSE "Based on the HR policies, here's what I found:\n\n" \o context

generate_answer_with_llm(question, context, history, llm) ==
    IF llm.ok THEN llm.response
    ELSE "Based on the HR policies, here's what I found:\n\n"
            \o Prefix(context, FallbackLen)

\* StoreTurn putting the new turn in front of the older ones.
StoreTurnInFront(store, session_id, turn) ==
    LET turns == IF session_id \in DOMAIN store THEN store[session_id] ELSE <<>>
        appended == <<turn>> \o turns
        kept == IF Len(appended) > MaxTurns THEN LastN(appended, MaxTurns)
                ELSE appended
    IN [s \in DOMAIN store \cup {session_id} |->
            IF s = session_id THEN kept ELSE store[s]]

\* conversation_store after the turn is appended and trimmed
StoreTurn(store, session_id, turn) ==
    LET turns == IF session_id \in DOMAIN store THEN store[session_id] ELSE <<>>
        appended == Append(turns, turn)
        kept == IF Len(appended) > MaxTurns THEN LastN(appended, MaxTurns)
                ELSE appended
    IN [s \in DOMAIN store \cup {session_id} |->
            IF s = session_id THEN kept ELSE store[s]]

IndexErrorText == "list index out of range"

\* The result for a retrieval without results with no error tag.
NoResultsUntagged ==
    [success |-> FALSE,
     answer |-> "I couldn't find relevant information in the documents.",
     sources |-> <<>>, relevant_chunks |-> 0, error |-> PyNone]

\* The result ask_question returns when the retrieval has no results.
NoResultsReply ==
    [success |-> FALSE,
     answer |-> "I couldn't find relevant information in the documents.",
     sources |-> <<>>, relevant_chunks |-> 0,
     error |-> "No relevant documents found"]

\* The result for a caught exception with no error tag.
FailureUntagged(e) ==
    [success |-> FALSE,
     answer |-> "An error occurred while processing your question: " \o e,
     sources |-> <<>>, relevant_chunks |-> 0, error |-> PyNone]

\* The result ask_question returns when it has caught exception e.
FailureReply(e) ==
    [success |-> FALSE,
     answer |-> "An error occurred while processing your question: " \o e,
     sources |-> <<>>, relevant_chunks |-> 0, error |-> e]

\* ask_question using the expanded search text as the question of the
\* prompt and of the stored turn.
ask_question_expanded(mem, disk, store, question, k, session_id, read_fails, encode_fails, rnd, llm) ==
    LET search_query == SearchQuery(question, session_id, store)
        found == search(mem, disk, search_query, k, read_fails, encode_fails, rnd)
    IN IF found.raised
       THEN [mem |-> found.mem, store |-> store, search_query |-> search_query,
             results |-> <<>>, prompt |-> NoPrompt, caught |-> TRUE,
             reply |-> FailureReply(IndexErrorText)]
       ELSE IF found.results = <<>>
       THEN [mem |-> found.mem, store |-> store, search_query |-> search_query,
             results |-> <<>>, prompt |-> NoPrompt, caught |-> FALSE,
             reply |-> NoResultsReply]
       ELSE LET sources == Sources(found.results)
                context == Context(found.results)
                history_text == HistoryText(session_id, store)
                answer == generate_answer_with_llm(search_query, context,
                                                   history_text, llm)
                turn == [question |-> search_query, answer |-> answer,
                         sources |-> sources]
            IN [mem |-> found.mem,
                store |-> StoreTurn(store, session_id, turn),
                search_query |-> search_query,
                results |-> found.results,
                prompt |-> Prompt(search_query, context, history_text),
                caught |-> FALSE,
                reply |-> [success |-> TRUE, answer |-> answer,
                           sources |-> sources,
                           relevant_chunks |-> Len(found.results),
                           error |-> PyNone]]

\* ask_question recording the turn of a question whose retrieval has no
\* results.
ask_question_records_empty(mem, disk, store, question, k, session_id, read_fails, encode_fails, rnd, llm) ==
    LET search_query == SearchQuery(question, session_id, store)
        found == search(mem, disk, search_query, k, read_fails, encode_fails, rnd)
    IN IF found.raised
       THEN [mem |-> found.mem, store |-> store, search_query |-> search_query,
             results |-> <<>>, prompt |-> NoPrompt, caught |-> TRUE,
             reply |-> FailureReply(IndexErrorText)]
       ELSE IF found.results = <<>>
       THEN [mem |-> found.mem,
             store |-> StoreTurn(store, session_id,
                            [question |-> question,
                             answer |-> NoResultsReply.answer,
                             sources |-> <<>>]),
             search_query |-> search_query,
             results |-> <<>>, prompt |-> NoPrompt, caught |-> FALSE,
             reply |-> NoResultsReply]
       ELSE LET sources == Sources(found.results)
                context == Context(found.results)
                history_text == HistoryText(session_id, store)
                answer == generate_answer_with_llm(question, context,
                                                   history_text, llm)
                turn == [question |-> question, answer |-> answer,
                         sources |-> sources]
            IN [mem |-> found.mem,
                store |-> StoreTurn(store, session_id, turn),
                search_query |-> search_query,
                results |-> found.results,
                prompt |-> Prompt(question, context, history_text),
                caught |-> FALSE,
                reply |-> [success |-> TRUE, answer |-> answer,
                           sources |-> sources,
                           relevant_chunks |-> Len(found.results),
                           error |-> PyNone]]

ask_question(mem, disk, store, question, k, session_id, read_fails, encode_fails, rnd, llm) ==
    LET search_query == SearchQuery(question, session_id, store)
        found == search(mem, disk, search_query, k, read_fails, encode_fails, rnd)
    IN IF found.raised
       THEN [mem |-> found.mem, store |-> store, search_query |-> search_query,
             results |-> <<>>, prompt |-> NoPrompt, caught |-> TRUE,
             reply |-> FailureReply(IndexErrorText)]
       ELSE IF found.results = <<>>
       THEN [mem |-> found.mem, store |-> store, search_query |-> search_query,
             results |-> <<>>, prompt |-> NoPrompt, caught |-> FALSE,
             reply |-> NoResultsReply]
       ELSE LET sources == Sources(found.results)
                context == Context(found.results)
                history_text == HistoryText(session_id, store)
                answer == generate_answer_with_llm(question, context,
                                                   history_text, llm)
                turn == [question |-> question, answer |-> answer,
                         sources |-> sources]
            IN [mem |-> found.mem,
                store |-> StoreTurn(store, session_id, turn),
                search_query |-> search_query,
                results |-> found.results,
                prompt |-> Prompt(question, context, history_text),
                caught |-> FALSE,
                reply |-> [success |-> TRUE, answer |-> answer,
                           sources |-> sources,
                           relevant_chunks |-> Len(found.results),
                           error |-> PyNone]]

----------------------------------------------------------------------------
(* The /ask handler *)

\* The log of the turns answered so far, with one more for session_id.
LogTurn(log, session_id, turn) ==
    [s \in DOMAIN log \cup {session_id} |->
        IF s = session_id
        THEN Append(IF s \in DOMAIN log THEN log[s] ELSE <<>>, turn)
        ELSE log[s]]

\* rag.ask_question: RAGService.ask_question(question, session_id), k = 10.
Ask(question, session_id, read_fails, encode_fails, rnd, llm) ==
    /\ asks < MaxAsk
    /\ faults + Cost(read_fails # 0) + Cost(encode_fails) + Cost(~llm.ok)
            <= MaxFaults
    /\ LET r == ask_question(CurMem, CurDisk, conversation_store, question,
                             DefaultK, session_id, read_fails, encode_fails,
                             rnd, llm)
       IN /\ SetMem(r.mem)
          /\ conversation_store' = r.store
          /\ turn_log' = IF r.reply.success
                         THEN LogTurn(turn_log, session_id,
                                [question |-> question,
                                 answer |-> r.reply.answer,
                                 sources |-> r.reply.sources])
                         ELSE turn_log
          /\ last' = [NoCall EXCEPT !.op = "ask_question",
                        !.question = question, !.session_id = session_id,
                        !.search_query = r.search_query,
                        !.results = r.results, !.prompt = r.prompt,
                        !.reply = r.reply, !.ret = r.reply.success,
                        !.raised = r.caught,
                        !.encode_failed = encode_fails,
                        !.read_failed = (read_fails # 0 /\ index.none),
                        !.llm_failed = ~llm.ok]
    /\ asks' = asks + 1
    /\ faults' = faults + Cost(read_fails # 0) + Cost(encode_fails)
                    + Cost(~llm.ok)
    /\ UNCHANGED <<disk_vars, race_vars>>

\* The conversation runs start from a process whose store was filled by an
\* earlier run and whose VectorStore.__init__ has loaded the artifacts.
\* SavedStore: f.txt was uploaded twice and g.txt once, every write
\* succeeded.
SavedStore ==
    LET f == DocumentsForStore("f.txt", FileChunks("f.txt"))
        g == DocumentsForStore("g.txt", FileChunks("g.txt"))
        a == add_documents(EmptyMem, NoDisk, f, FALSE, <<>>, FALSE, AllOk)
        b == add_documents(a.mem, a.disk, f, FALSE, <<>>, FALSE, AllOk)
    IN add_documents(b.mem, b.disk, g, FALSE, <<>>, FALSE, AllOk).disk

\* DamagedStore: g.txt was uploaded, then f.txt, and the write of
\* metadata.pkl raised during the second save_index, so metadata.pkl holds
\* one record for three chunks.
DamagedStore ==
    LET f == DocumentsForStore("f.txt", FileChunks("f.txt"))
        g == DocumentsForStore("g.txt", FileChunks("g.txt"))
        a == add_documents(EmptyMem, NoDisk, g, FALSE, <<>>, FALSE, AllOk)
    IN add_documents(a.mem, a.disk, f, FALSE, <<>>, FALSE,
                     <<"ok", "ok", "keep">>).disk

InitAsk ==
    /\ \E saved \in {SavedStore, DamagedStore} :
        /\ index_faiss = saved.index_faiss
        /\ documents_pkl = saved.documents_pkl
        /\ metadata_pkl = saved.metadata_pkl
        /\ index = load_index(EmptyMem, saved, 0).index
        /\ documents = load_index(EmptyMem, saved, 0).documents
        /\ metadata = load_index(EmptyMem, saved, 0).metadata
        /\ faults = Cost(saved = DamagedStore)
    /\ conversation_store = [s \in {} |-> <<>>]
    /\ turn_log = [s \in {} |-> <<>>]
    /\ asks = 0
    /\ last = NoCall
    /\ searcher = NoSearch
    /\ remover = NoRemove
    /\ calls = 0

\* The language model may fail once; the encoder and the artifacts are
\* available to these runs (their failures are those of SpecStore).
NextAsk ==
    \/ \E question \in Questions, session_id \in SessionIds,
          llm \in {o \in LLMOutcomes : o.ok \/ Budget >= 1} :
          Ask(question, session_id, 0, FALSE, <<>>, llm)
    \/ clear_documents

SpecAsk == InitAsk /\ [][NextAsk]_vars

----------------------------------------------------------------------------
(* Two threads inside the VectorStore                                      *)
(*                                                                         *)
(* VectorStore is a process-wide singleton whose methods read and assign   *)
(* self.index, self.documents and self.metadata one statement at a time.   *)
(* The runs below are those of a search call and a remove_document or      *)
(* clear call made by two threads: one action per statement (or group of   *)
(* statements that touches the shared fields once).  No failure is         *)
(* injected.                                                               *)

\* A call holding a lock for its whole duration: no step while the other
\* thread is inside a call.
MayStepLocked(other) == other.pc \in {"idle", "done"}

\* VectorStore acquires nothing before it reads or assigns its fields: a
\* step of one thread never waits for the other thread.
MayStep(other) == TRUE

\* The store of the interleaved runs: g.txt, h.txt and f.txt were uploaded.
RaceStore ==
    LET g == DocumentsForStore("g.txt", FileChunks("g.txt"))
        h == DocumentsForStore("h.txt", FileChunks("h.txt"))
        f == DocumentsForStore("f.txt", FileChunks("f.txt"))
        a == add_documents(EmptyMem, NoDisk, g, FALSE, <<>>, FALSE, AllOk)
        b == add_documents(a.mem, a.disk, h, FALSE, <<>>, FALSE, AllOk)
    IN add_documents(b.mem, b.disk, f, FALSE, <<>>, FALSE, AllOk)

InitRace ==
    /\ index = RaceStore.mem.index
    /\ documents = RaceStore.mem.documents
    /\ metadata = RaceStore.mem.metadata
    /\ index_faiss = RaceStore.disk.index_faiss
    /\ documents_pkl = RaceStore.disk.documents_pkl
    /\ metadata_pkl = RaceStore.disk.metadata_pkl
    /\ conversation_store = [s \in {} |-> <<>>]
    /\ turn_log = [s \in {} |-> <<>>]
    /\ asks = 0
    /\ last = NoCall
    /\ faults = 0
    /\ searcher = NoSearch
    /\ remover = NoRemove
    /\ calls = 0

mem_vars == <<index, documents, metadata>>

service_vars == <<conversation_store, turn_log, asks, last, faults>>

\* A thread enters search(query, k).
search_begin(query, k) ==
    /\ searcher.pc \in {"idle", "done"}
    /\ calls < MaxCalls
    /\ MayStep(remover)
    /\ searcher' = [NoSearch EXCEPT !.pc = "index_check",
                        !.query = query, !.k = k]
    /\ calls' = calls + 1
    /\ UNCHANGED <<mem_vars, disk_vars, service_vars, remover>>

\* if self.index is None: self.load_index(); if still None: return []
search_index_check ==
    /\ searcher.pc = "index_check"
    /\ MayStep(remover)
    /\ IF index.none
       THEN LET mem1 == load_index(CurMem, CurDisk, 0)
            IN /\ SetMem(mem1)
               /\ searcher' = [searcher EXCEPT !.pc =
                        IF mem1.index.none THEN "done" ELSE "len_check"]
       ELSE /\ UNCHANGED mem_vars
            /\ searcher' = [searcher EXCEPT !.pc = "len_check"]
    /\ UNCHANGED <<disk_vars, service_vars, remover, calls>>

\* if len(self.documents) == 0: return []
search_len_check ==
    /\ searcher.pc = "len_check"
    /\ MayStep(remover)
    /\ searcher' = [searcher EXCEPT !.pc =
            IF Len(documents) = 0 THEN "done" ELSE "index_search"]
    /\ UNCHANGED <<mem_vars, disk_vars, service_vars, remover, calls>>

\* The debug line reads self.index.ntotal and len(self.documents); then the
\* query is embedded and self.index.search(query_embedding, k) is called.
\* On an index that has become None this raises AttributeError.
search_index_search ==
    /\ searcher.pc = "index_search"
    /\ MayStep(remover)
    /\ IF index.none
       THEN searcher' = [searcher EXCEPT !.pc = "done", !.raised = TRUE,
                            !.results = <<>>]
       ELSE LET query_embedding ==
                    create_embeddings(<<searcher.query>>, FALSE, <<>>)
            IN searcher' = [searcher EXCEPT !.pc = "loop", !.i = 1,
                    !.ntotal = ntotal(index), !.ndocs = Len(documents),
                    !.found = index_search(index, query_embedding[1],
                                           searcher.k)]
    /\ UNCHANGED <<mem_vars, disk_vars, service_vars, remover, calls>>

\* One test of the results loop: if idx >= 0 and idx < len(self.documents)
search_loop ==
    /\ searcher.pc = "loop"
    /\ MayStep(remover)
    /\ searcher' =
        IF searcher.i > Len(searcher.found)
        THEN [searcher EXCEPT !.pc = "done"]
        ELSE IF Accepted(searcher.found[searcher.i], CurMem)
        THEN [searcher EXCEPT !.pc = "fetch"]
        ELSE [searcher EXCEPT !.i = @ + 1]
    /\ UNCHANGED <<mem_vars, disk_vars, service_vars, remover, calls>>

\* results.append({... self.documents[idx], self.metadata[idx] ...}); a
\* position that is no longer there raises IndexError.
search_fetch ==
    /\ searcher.pc = "fetch"
    /\ MayStep(remover)
    /\ LET entry == searcher.found[searcher.i]
       IN searcher' =
            IF entry.idx >= Len(documents) \/ entry.idx >= Len(metadata)
            THEN [searcher EXCEPT !.pc = "done", !.raised = TRUE,
                        !.results = <<>>]
            ELSE [searcher EXCEPT !.pc = "loop", !.i = @ + 1,
                    !.results = Append(@,
                        [document |-> documents[entry.idx + 1],
                         metadata |-> metadata[entry.idx + 1],
                         score |-> entry.distance,
                         rank |-> searcher.i])]
    /\ UNCHANGED <<mem_vars, disk_vars, service_vars, remover, calls>>

\* A thread enters remove_document(filename).
remove_begin(filename) ==
    /\ remover.pc \in {"idle", "done"}
    /\ calls < MaxCalls
    /\ MayStep(searcher)
    /\ remover' = [NoRemove EXCEPT !.pc = "filter",
                        !.op = "remove_document", !.filename = filename]
    /\ calls' = calls + 1
    /\ UNCHANGED <<mem_vars, disk_vars, service_vars, searcher>>

\* The two early returns, keep_indices, new_documents and new_metadata.
remove_filter ==
    /\ remover.pc = "filter"
    /\ MayStep(searcher)
    /\ LET keep == keep_indices(documents, remover.filename, 1)
       IN remover' =
            IF documents = <<>> \/ Len(keep) = Len(documents)
            THEN [remover EXCEPT !.pc = "done", !.ret = FALSE]
            ELSE IF \E j \in 1..Len(keep) : keep[j] > Len(metadata)
            THEN [remover EXCEPT !.pc = "done", !.raised = TRUE]
            ELSE [remover EXCEPT !.pc = "rebuild",
                    !.new_documents =
                        [j \in 1..Len(keep) |-> documents[keep[j]]],
                    !.new_metadata =
                        [j \in 1..Len(keep) |-> metadata[keep[j]]]]
    /\ UNCHANGED <<mem_vars, disk_vars, service_vars, searcher, calls>>

\* self.index = faiss.IndexFlatL2(dimension), or self.index = None when no
\* chunk is kept.
remove_rebuild ==
    /\ remover.pc = "rebuild"
    /\ MayStep(searcher)
    /\ IF remover.new_documents # <<>>
       THEN /\ index' = IndexFlatL2
            /\ remover' = [remover EXCEPT !.pc = "index_add"]
       ELSE /\ index' = NoneIndex
            /\ remover' = [remover EXCEPT !.pc = "set_documents"]
    /\ UNCHANGED <<documents, metadata, disk_vars, service_vars, searcher,
                   calls>>

\* self.index.add(embeddings)
remove_index_add ==
    /\ remover.pc = "index_add"
    /\ MayStep(searcher)
    /\ index' = index_add(index,
                    create_embeddings(TextsOf(remover.new_documents),
                                      FALSE, <<>>))
    /\ remover' = [remover EXCEPT !.pc = "set_documents"]
    /\ UNCHANGED <<documents, metadata, disk_vars, service_vars, searcher,
                   calls>>

\* self.documents = new_documents
remove_set_documents ==
    /\ remover.pc = "set_documents"
    /\ MayStep(searcher)
    /\ documents' = remover.new_documents
    /\ remover' = [remover EXCEPT !.pc = "set_metadata"]
    /\ UNCHANGED <<index, metadata, disk_vars, service_vars, searcher, calls>>

\* self.metadata = new_metadata
remove_set_metadata ==
    /\ remover.pc = "set_metadata"
    /\ MayStep(searcher)
    /\ metadata' = remover.new_metadata
    /\ remover' = [remover EXCEPT !.pc = "save"]
    /\ UNCHANGED <<index, documents, disk_vars, service_vars, searcher, calls>>

\* self.save_index(); return True
remove_save ==
    /\ remover.pc = "save"
    /\ MayStep(searcher)
    /\ SetDisk(save_index(CurMem, CurDisk, AllOk))
    /\ remover' = [remover EXCEPT !.pc = "done", !.ret = TRUE]
    /\ UNCHANGED <<mem_vars, service_vars, searcher, calls>>

\* A thread enters clear().
clear_begin ==
    /\ remover.pc \in {"idle", "done"}
    /\ calls < MaxCalls
    /\ MayStep(searcher)
    /\ remover' = [NoRemove EXCEPT !.pc = "clear_index", !.op = "clear"]
    /\ calls' = calls + 1
    /\ UNCHANGED <<mem_vars, disk_vars, service_vars, searcher>>

\* self.index = None
clear_index ==
    /\ remover.pc = "clear_index"
    /\ MayStep(searcher)
    /\ index' = NoneIndex
    /\ remover' = [remover EXCEPT !.pc = "clear_documents"]
    /\ UNCHANGED <<documents, metadata, disk_vars, service_vars, searcher,
                   calls>>

\* self.documents = []
clear_set_documents ==
    /\ remover.pc = "clear_documents"
    /\ MayStep(searcher)
    /\ documents' = <<>>
    /\ remover' = [remover EXCEPT !.pc = "clear_metadata"]
    /\ UNCHANGED <<index, metadata, disk_vars, service_vars, searcher, calls>>

\* self.metadata = []
clear_set_metadata ==
    /\ remover.pc = "clear_metadata"
    /\ MayStep(searcher)
    /\ metadata' = <<>>
    /\ remover' = [remover EXCEPT !.pc = "clear_files"]
    /\ UNCHANGED <<index, documents, disk_vars, service_vars, searcher, calls>>

\* The loop that deletes the three artifacts.
clear_files ==
    /\ remover.pc = "clear_files"
    /\ MayStep(searcher)
    /\ SetDisk(NoDisk)
    /\ remover' = [remover EXCEPT !.pc = "done", !.ret = TRUE]
    /\ UNCHANGED <<mem_vars, service_vars, searcher, calls>>

SearchSteps ==
    \/ search_index_check
    \/ search_len_check
    \/ search_index_search
    \/ search_loop
    \/ search_fetch

NextRace ==
    \/ \E query \in Queries, k \in 1..MaxK : search_begin(query, k)
    \/ SearchSteps
    \/ \E filename \in Filenames : remove_begin(filename)
    \/ remove_filter
    \/ remove_rebuild
    \/ remove_index_add
    \/ remove_set_documents
    \/ remove_set_metadata
    \/ remove_save
    \/ clear_begin
    \/ clear_index
    \/ clear_set_documents
    \/ clear_set_metadata
    \/ clear_files

SpecRace == InitRace /\ [][NextRace]_vars

----------------------------------------------------------------------------
(* Properties of the document store, checked under SpecStore *)

\* What a search(query, k) call returns in the current state when nothing
\* fails.
Found(query, k) == search(CurMem, CurDisk, query, k, 0, FALSE, <<>>)

\* The positions of documents whose chunk belongs to filename.
ChunksOf(docs, filename) == {i \in 1..Len(docs) : docs[i].filename = filename}

Aligned ==
    /\ ntotal(index) = Len(documents)
    /\ Len(documents) = Len(metadata)
    /\ \A i \in 1..Len(documents) :
        /\ i <= ntotal(index) => index.vectors[i] = Embed(documents[i].text)
        /\ i <= Len(metadata) => ChunkOf(metadata[i]) = documents[i]

\* C1: after any sequence of add_documents, remove_document and clear calls
\* the index holds as many vectors as there are documents and metadata
\* records, vector i is the embedding of documents[i].text and metadata[i]
\* describes documents[i].
C1_AlignmentInvariant ==
    last.op \in {"init", "add_documents", "remove_document", "clear"}
        => Aligned

\* C2: once remove_document has returned True and removed the only file of
\* a store that was added and saved without any failure, the document count
\* is 0 and a search returns nothing.
C2_RemovedNeverReturned ==
    (faults = 0 /\ last.op = "remove_document" /\ last.ret /\ documents = <<>>)
        => /\ get_document_count(documents) = 0
           /\ \A query \in Queries, k \in 1..MaxK :
                Found(query, k).results = <<>>

\* C3: after an add_documents of a non-empty batch and after a
\* remove_document that returned True, all writes having succeeded,
\* load_index reproduces the in-memory state from the three artifacts.
C3_PersistenceRoundTrip ==
    (/\ \/ last.op = "add_documents" /\ ~last.raised
              /\ FileChunks(last.filename) # <<>>
        \/ last.op = "remove_document" /\ last.ret
     /\ faults = 0 /\ last.writes = AllOk)
        => load_index(EmptyMem, CurDisk, 0) = CurMem

\* C4: a load_index that finds a persisted index whose size differs from the
\* length of the persisted documents leaves the store empty.
C4_LoadValidatesAlignment ==
    (/\ last.op = "restart"
     /\ index_faiss.exists /\ documents_pkl.exists
     /\ Len(index_faiss.data) # Len(documents_pkl.data))
        => CurMem = EmptyMem

\* C5: remove_document(F) on a store holding chunks of F and of other files
\* returns True, leaves exactly the chunks of the other files, which are the
\* only ones a search returns, and a second remove_document(F) returns False.
C5_RemovalCorrectness ==
    [][(/\ last'.op = "remove_document"
        /\ ChunksOf(documents, last'.filename) # {}
        /\ ChunksOf(documents, last'.filename) # 1..Len(documents))
        => /\ last'.ret
           /\ documents' = SelectSeq(documents,
                                LAMBDA d : d.filename # last'.filename)
           /\ \A query \in Queries, k \in 1..MaxK :
                LET r == search(Mem(index', documents', metadata'),
                                Disk(index_faiss', documents_pkl', metadata_pkl'),
                                query, k, 0, FALSE, <<>>)
                IN /\ ~r.raised
                   /\ \A j \in 1..Len(r.results) :
                        r.results[j].document.filename # last'.filename
           /\ ~remove_document(Mem(index', documents', metadata'),
                               Disk(index_faiss', documents_pkl', metadata_pkl'),
                               last'.filename, FALSE, <<>>, AllOk).ret]_vars

\* C6: an add_documents call in which creating the embeddings or inserting
\* them into the index fails leaves documents and metadata as they were.
C6_AddAllOrNothing ==
    [][(last'.op = "add_documents" /\ (last'.encode_failed \/ last'.add_failed))
        => (documents' = documents /\ metadata' = metadata)]_vars

\* C9: whenever the store holds no chunks, be it never filled, cleared or
\* emptied by remove_document, search returns an empty list and does not
\* raise; no failure has occurred before.
C9_EmptyIndexSafety ==
    (faults = 0 /\ documents = <<>>)
        => \A query \in Queries, k \in 1..MaxK :
            /\ Found(query, k).results = <<>>
            /\ ~Found(query, k).raised

\* C10: for every query and every k >= 1, search returns at most
\* min(k, number of stored vectors) results, their scores are in
\* non-decreasing order, and each result's document and metadata come from
\* one and the same position of documents and metadata.
C10_KNearestBound ==
    \A query \in Queries, k \in 1..MaxK :
        LET r == Found(query, k)
            n == ntotal(r.mem.index)
        IN /\ Len(r.results) <= (IF k <= n THEN k ELSE n)
           /\ \A j \in 1..(Len(r.results) - 1) :
                r.results[j].score <= r.results[j + 1].score
           /\ \A j \in 1..Len(r.results) :
                \E p \in 1..Len(r.mem.documents) :
                    /\ p <= Len(r.mem.metadata)
                    /\ r.results[j].document = r.mem.documents[p]
                    /\ r.results[j].metadata = r.mem.metadata[p]

\* A search has run on a store of three chunks: with k = 2 it returns two
\* results at different distances, the nearer first.
C10_Witness ==
    /\ last.op = "search"
    /\ Len(documents) = 3
    /\ \E query \in Queries :
        /\ Len(Found(query, 2).results) = 2
        /\ Found(query, 2).results[1].score < Found(query, 2).results[2].score

----------------------------------------------------------------------------
(* Properties of the conversation memory, checked under SpecAsk *)

\* C7: after every ask_question call each session holds at most 5 turns,
\* and they are the last min(n, 5) of the n turns answered in the session,
\* in the order they were asked.
C7_ConversationBound ==
    /\ DOMAIN conversation_store = DOMAIN turn_log
    /\ \A s \in DOMAIN conversation_store :
        LET n == Len(turn_log[s])
            m == IF n < 5 THEN n ELSE 5
        IN /\ Len(conversation_store[s]) = m
           /\ \A j \in 1..m :
                conversation_store[s][j] = turn_log[s][n - m + j]

\* Seven questions were answered in one session: turns 3..7 remain.
C7_Witness ==
    \E s \in DOMAIN turn_log :
        /\ Len(turn_log[s]) = 7
        /\ Len(conversation_store[s]) = 5
        /\ conversation_store[s][1] = turn_log[s][3]
        /\ conversation_store[s][5] = turn_log[s][7]

C8_Indicators == {"those", "they", "them", "it", "this", "that"}

\* The questions whose lower-cased text contains an indicator.
C8_Vague ==
    {q \in Questions : \E ind \in C8_Indicators : Contains(lower(q), ind)}

\* C8: the text ask_question passes to search is "<last_question> <question>"
\* exactly when the lower-cased question contains an indicator and the session
\* has a stored turn before the call; otherwise it is the question verbatim.
C8_QueryExpansion ==
    [][last'.op = "ask_question"
        => last'.search_query =
            IF /\ last'.question \in C8_Vague
               /\ last'.session_id \in DOMAIN conversation_store
               /\ Len(conversation_store[last'.session_id]) >= 1
            THEN conversation_store[last'.session_id]
                    [Len(conversation_store[last'.session_id])].question
                    \o " " \o last'.question
            ELSE last'.question]_vars

\* The follow-up of the first question was asked: the search text is both
\* questions, and the lower-casing decided it.
C8_Witness ==
    /\ last.op = "ask_question"
    /\ last.question = "What about THOSE days?"
    /\ last.search_query = "How many days of leave? What about THOSE days?"

----------------------------------------------------------------------------
(* Further properties of the document store, checked under SpecStore *)

\* C11: remove_document(filename) on a store in which no chunk has that
\* filename returns False and leaves index, documents, metadata and the
\* three artifacts unchanged.
C11_RemoveAbsentNoEffect ==
    [][(last'.op = "remove_document"
            /\ ChunksOf(documents, last'.filename) = {})
        => /\ ~last'.ret /\ ~last'.raised
           /\ UNCHANGED <<index, documents, metadata>>
           /\ UNCHANGED <<index_faiss, documents_pkl, metadata_pkl>>]_vars

\* remove_document has returned False on a store that holds chunks of other
\* files.
C11_Witness ==
    /\ last.op = "remove_document"
    /\ ~last.ret /\ ~last.raised
    /\ documents # <<>>
    /\ ChunksOf(documents, last.filename) = {}

\* C12: after clear() the index is absent, documents and metadata are empty,
\* no artifact exists and the document count is 0; a second clear() changes
\* nothing, and a load_index leaves the store empty.
C12_ClearIdempotent ==
    last.op = "clear"
        => /\ index.none /\ documents = <<>> /\ metadata = <<>>
           /\ ~index_faiss.exists /\ ~documents_pkl.exists
           /\ ~metadata_pkl.exists
           /\ get_document_count(documents) = 0
           /\ clear(CurMem, CurDisk).mem = CurMem
           /\ clear(CurMem, CurDisk).disk = CurDisk
           /\ load_index(CurMem, CurDisk, 0) = EmptyMem

\* clear() has run after a failure had left artifacts behind.
C12_Witness == last.op = "clear" /\ faults = 1

\* C13: the document count is the number of distinct filenames among the
\* chunks, never more than the number of chunks; after an upload of one
\* file of several chunks into an empty store it is 1.
C13_DocumentCount ==
    /\ get_document_count(documents) =
        Cardinality({f \in Uploads : ChunksOf(documents, f) # {}})
    /\ get_document_count(documents) <= Len(documents)
    /\ (/\ last.op = "add_documents" /\ ~last.raised
        /\ FileChunks(last.filename) # <<>>
        /\ Len(documents) = Len(FileChunks(last.filename)))
        => get_document_count(documents) = 1

\* One file of two chunks was uploaded into an empty store: one document,
\* two chunks.
C13_Witness ==
    /\ last.op = "add_documents" /\ last.filename = "f.txt"
    /\ Len(documents) = 2
    /\ get_document_count(documents) = 1

\* C16: when a read of one of the three artifacts raises during load_index,
\* the index is absent and documents and metadata are empty afterwards.
C16_LoadNeverPartial ==
    /\ (last.op \in {"restart", "search"} /\ last.read_failed)
            => CurMem = EmptyMem
    /\ \A read_fails \in 1..3 :
            (index_faiss.exists /\ documents_pkl.exists)
                => load_index(CurMem, CurDisk, read_fails) = EmptyMem

\* A restart found the three artifacts of a filled store and a read raised.
C16_Witness ==
    /\ last.op = "restart" /\ last.read_failed
    /\ index_faiss.exists /\ documents_pkl.exists /\ metadata_pkl.exists
    /\ documents_pkl.data # <<>>

\* C17: when encode raises, create_embeddings fails the call: add_documents
\* of a non-empty batch does not go on with substitute vectors.
C17_EmbeddingFailurePolicy ==
    (/\ last.op = "add_documents" /\ last.encode_failed
     /\ FileChunks(last.filename) # <<>>)
        => (last.raised /\ ~last.ret)

----------------------------------------------------------------------------
(* Further properties of ask_question, checked under SpecAsk *)

\* The newest turn stored for the session of the last call.
NewestTurn ==
    conversation_store[last.session_id]
        [Len(conversation_store[last.session_id])]

\* C14: when the retrieval returns no results, ask_question returns
\* relevant_chunks = 0, no sources and an error tag that is not None; the
\* result returned for a caught exception carries another error and another
\* answer, and neither result is the one of an answered question.
C14_NoResultsOutcome ==
    last.op = "ask_question"
        => /\ (~last.raised /\ last.results = <<>>)
                => /\ ~last.reply.success
                   /\ last.reply.relevant_chunks = 0
                   /\ last.reply.sources = <<>>
                   /\ last.reply.error # PyNone
                   /\ last.reply.error = "No relevant documents found"
                   /\ last.reply.answer =
                        "I couldn't find relevant information in the documents."
           /\ last.raised
                => /\ ~last.reply.success
                   /\ last.reply.error # PyNone
                   /\ last.reply.error # "No relevant documents found"
                   /\ last.reply.answer #
                        "I couldn't find relevant information in the documents."
           /\ last.results # <<>>
                => /\ last.reply.success
                   /\ last.reply.error = PyNone
           /\ (index.none \/ documents = <<>>)
                => (~last.raised /\ last.results = <<>>)

\* A question was asked on a cleared store: the empty-result outcome.
C14_Witness ==
    /\ last.op = "ask_question"
    /\ documents = <<>> /\ ~index_faiss.exists
    /\ ~last.raised /\ ~last.ret
    /\ last.results = <<>>
    /\ last.reply.relevant_chunks = 0

\* C15: when the retrieval is non-empty and the language model fails,
\* ask_question returns success with an answer made of at most the first
\* 1000 characters of the context, the sources and relevant_chunks of a
\* successful generation, and records the turn with that answer.
C15_GenerationFallback ==
    [][(last'.op = "ask_question" /\ last'.llm_failed /\ last'.results # <<>>)
        => LET ctx == last'.prompt.context
               cut == IF Len(ctx) <= 1000 THEN ctx ELSE SubSeq(ctx, 1, 1000)
               good == ask_question(CurMem, CurDisk, conversation_store,
                            last'.question, DefaultK, last'.session_id,
                            0, FALSE, <<>>,
                            [ok |-> TRUE, response |-> "You get 20 days."])
               turns == conversation_store'[last'.session_id]
           IN /\ last'.reply.success /\ last'.reply.error = PyNone
              /\ last'.reply.answer =
                    "Based on the HR policies, here's what I found:\n\n" \o cut
              /\ [sources |-> last'.reply.sources,
                  relevant_chunks |-> last'.reply.relevant_chunks,
                  success |-> TRUE, context |-> ctx]
                    = [sources |-> good.reply.sources,
                       relevant_chunks |-> good.reply.relevant_chunks,
                       success |-> good.reply.success,
                       context |-> good.prompt.context]
              /\ last'.reply.relevant_chunks = Len(last'.results)
              /\ last'.session_id \in DOMAIN conversation_store'
              /\ turns[Len(turns)] = [question |-> last'.question,
                                      answer |-> last'.reply.answer,
                                      sources |-> last'.reply.sources]]_vars

\* The model failed on a context of more than 1000 characters: the answer
\* carries its first 1000 characters.
C15_Witness ==
    /\ last.op = "ask_question" /\ last.llm_failed /\ last.ret
    /\ Len(last.prompt.context) > 1000
    /\ Len(last.reply.answer) > 1000
    /\ NewestTurn.answer = last.reply.answer

\* C18: for every answered ask_question call, expanded or not, the question
\* of the prompt and the question of the recorded turn are the caller's
\* question verbatim.
C18_ExpansionOnlyForRetrieval ==
    (last.op = "ask_question" /\ last.ret)
        => /\ last.prompt.question = last.question
           /\ last.session_id \in DOMAIN conversation_store
           /\ NewestTurn.question = last.question

\* An expanded question was answered.
C18_Witness ==
    /\ last.op = "ask_question" /\ last.ret
    /\ last.search_query # last.question
    /\ NewestTurn.question = "What about THOSE days?"

\* The positions of the results whose chunk belongs to filename.
RanksOf(results, filename) ==
    {p \in 1..Len(results) : results[p].document.filename = filename}

\* The first n characters of a text.
FirstChars(text, n) == IF Len(text) <= n THEN text ELSE SubSeq(text, 1, n)

\* C19: the sources of an answered question hold one group per distinct
\* filename of the results, in order of first appearance; the matches of a
\* group are the first (at most 3) results of that filename in rank order,
\* each with the first 200 characters of the chunk text and an ellipsis.
C19_SourceGrouping ==
    (last.op = "ask_question" /\ last.ret)
        => LET res == last.results
               src == last.reply.sources
               First(f) == CHOOSE p \in RanksOf(res, f) :
                                \A q \in RanksOf(res, f) : p <= q
               \* the m-th result of file f in rank order
               Nth(f, m) == CHOOSE p \in RanksOf(res, f) :
                    Cardinality({q \in RanksOf(res, f) : q <= p}) = m
           IN /\ res # <<>>
              /\ {src[j].filename : j \in 1..Len(src)}
                    = {res[p].document.filename : p \in 1..Len(res)}
              /\ \A i, j \in 1..Len(src) :
                    i < j => First(src[i].filename) < First(src[j].filename)
              /\ \A j \in 1..Len(src) :
                    LET f == src[j].filename
                        n == Cardinality(RanksOf(res, f))
                    IN /\ Len(src[j].matches) = (IF n < 3 THEN n ELSE 3)
                       /\ \A m \in 1..Len(src[j].matches) :
                            /\ src[j].matches[m].text =
                                FirstChars(res[Nth(f, m)].document.text, 200)
                                    \o "..."
                            /\ src[j].matches[m].chunk_id =
                                res[Nth(f, m)].document.chunk_id

\* An answer whose results hold four chunks of one file and one of another:
\* two groups, the first capped at three matches of 203 characters.
C19_Witness ==
    /\ last.op = "ask_question" /\ last.ret
    /\ Len(last.results) = 5
    /\ Len(last.reply.sources) = 2
    /\ \E j \in 1..2 :
        /\ Cardinality(RanksOf(last.results,
                               last.reply.sources[j].filename)) = 4
        /\ Len(last.reply.sources[j].matches) = 3
        /\ Len(last.reply.sources[j].matches[1].text) = 203

\* C20: the history block of the prompt is built from the (at most) two
\* newest turns stored for the session before the turn of the call was
\* appended, oldest first, each previous answer cut to its first 150
\* characters; it is empty for a session without a stored turn.  After the
\* call the turn of the call is the last stored one, and the store keeps 5
\* turns, so the turns before it are the ones stored in front of it.
C20_HistoryAssembly ==
    (last.op = "ask_question" /\ last.ret)
        => LET turns == conversation_store[last.session_id]
               n == Len(turns) - 1
               Line(t) == "Previous Question: " \o t.question
                            \o "\nPrevious Answer: "
                            \o FirstChars(t.answer, 150) \o "...\n\n"
           IN /\ turns[n + 1] = [question |-> last.question,
                                 answer |-> last.reply.answer,
                                 sources |-> last.reply.sources]
              /\ last.prompt.history =
                    IF n = 0 THEN ""
                    ELSE IF n = 1 THEN Line(turns[1])
                    ELSE Line(turns[n - 1]) \o Line(turns[n])

\* The fourth question of a session was answered after a degraded answer of
\* more than 150 characters: the history shows turns two and three only.
C20_Witness ==
    /\ last.op = "ask_question" /\ last.ret
    /\ Len(conversation_store[last.session_id]) = 4
    /\ Len(conversation_store[last.session_id][3].answer) > 150
    /\ last.prompt.history # ""

----------------------------------------------------------------------------
(* Properties of doc_id, checked under SpecStore *)

\* The positions remove_document(last'.filename) keeps, for the store as it
\* is before the call.
Kept == keep_indices(documents, last'.filename, 1)

\* C21: after every add_documents call that returned, each metadata record
\* the call created has doc_id equal to its own (0-based) position.
C21_DocIdAtCreation ==
    (last.op = "add_documents" /\ last.ret)
        => LET n == Len(FileChunks(last.filename))
           IN \A i \in (Len(metadata) - n + 1)..Len(metadata) :
                metadata[i].doc_id = i - 1

\* C22: every metadata record kept by a remove_document call that returns
\* True has the doc_id it had before the call.
C22_RemoveKeepsDocId ==
    [][(last'.op = "remove_document" /\ last'.ret)
        => /\ Len(metadata') = Len(Kept)
           /\ \A j \in 1..Len(Kept) :
                metadata'[j].doc_id = metadata[Kept[j]].doc_id]_vars

\* A chunk was removed in front of a kept one: the kept record is first in
\* the store and still carries doc_id 1.
C22_Witness ==
    /\ last.op = "remove_document" /\ last.ret
    /\ metadata # <<>>
    /\ metadata[1].doc_id = 1

\* C23 as stated: after a remove_document call that returns True the doc_id
\* of every record is its (0-based) position in the rebuilt store.
C23_DocIdPositionalAfterRebuild ==
    (last.op = "remove_document" /\ last.ret)
        => \A j \in 1..Len(metadata) : metadata[j].doc_id = j - 1

\* C23, amended: the rebuild does not recompute doc_id.  After a
\* remove_document call that returns True, the record at position j has
\* doc_id j exactly when the record kept for that position had doc_id j
\* before the call.
C23_DocIdNotRecomputed ==
    [][(last'.op = "remove_document" /\ last'.ret)
        => \A j \in 1..Len(metadata') :
            (metadata'[j].doc_id = j - 1)
                <=> (j <= Len(Kept) /\ metadata[Kept[j]].doc_id = j - 1)]_vars

\* After a removal the store holds a record whose doc_id is its position and
\* behind it a record whose doc_id is a position the store no longer has.
C23_Witness ==
    /\ last.op = "remove_document" /\ last.ret
    /\ Len(metadata) = 2
    /\ metadata[1].doc_id = 0
    /\ metadata[2].doc_id = 2

----------------------------------------------------------------------------
(* Further properties of the document store, checked under SpecStore *)

\* C26: in every state reached after a VectorStore operation returns, an
\* absent index implies that documents and metadata are both empty, so a
\* load_index triggered by search on an absent index replaces nothing.
C26_AbsentIndexMeansEmpty ==
    /\ index.none => (documents = <<>> /\ metadata = <<>>)
    /\ \A read_fails \in 0..3 :
        LET loaded == load_index(CurMem, CurDisk, read_fails)
        IN (loaded.index.none /\ read_fails # 0)
                => (loaded.documents = <<>> /\ loaded.metadata = <<>>)

\* A search found the index absent while the artifacts of removed chunks
\* were still on disk, and a read of its load_index raised: index, documents
\* and metadata are all empty.
C26_Witness ==
    /\ last.op = "search" /\ last.read_failed
    /\ index.none /\ documents = <<>> /\ metadata = <<>>
    /\ index_faiss.exists /\ documents_pkl.exists
    /\ documents_pkl.data # <<>>

\* C28: remove_document is a stable filter: after a call that returns True
\* documents and metadata hold the kept chunks in their earlier order, and
\* the rebuilt index holds the embeddings of their texts in that order.
C28_StableFilter ==
    [][(last'.op = "remove_document" /\ last'.ret)
        => /\ documents' = [j \in 1..Len(Kept) |-> documents[Kept[j]]]
           /\ metadata' = [j \in 1..Len(Kept) |-> metadata[Kept[j]]]
           /\ \A i, j \in 1..Len(Kept) : i < j => Kept[i] < Kept[j]
           /\ index'.vectors
                = [j \in 1..Len(Kept) |-> Embed(documents[Kept[j]].text)]]_vars

\* C29: an upload under a filename the store already holds appends the new
\* chunks behind the old ones, leaves get_document_count() as it was, and a
\* remove_document(filename) made afterwards returns True and leaves no
\* chunk of any upload of that filename.
C29_ReuploadAppends ==
    [][(/\ last'.op = "add_documents" /\ last'.ret
        /\ FileChunks(last'.filename) # <<>>
        /\ ChunksOf(documents, last'.filename) # {})
        => /\ Len(documents') = Len(documents) + Len(FileChunks(last'.filename))
           /\ SubSeq(documents', 1, Len(documents)) = documents
           /\ get_document_count(documents') = get_document_count(documents)
           /\ LET r == remove_document(Mem(index', documents', metadata'),
                            Disk(index_faiss', documents_pkl', metadata_pkl'),
                            last'.filename, FALSE, <<>>, AllOk)
              IN /\ r.ret /\ ~r.raised
                 /\ ChunksOf(r.mem.documents, last'.filename) = {}]_vars

----------------------------------------------------------------------------
(* Further properties of the conversation memory, checked under SpecAsk *)

\* conversation_store with the turns of session_id only.
OnlySession(store, session_id) ==
    [s \in DOMAIN store \cap {session_id} |-> store[s]]

\* C25: an ask_question call for one session adds, removes and changes no
\* turn of another session, and its search text and its history block are
\* those computed from the stored turns of its own session alone.
C25_SessionIndependence ==
    [][last'.op = "ask_question"
        => /\ DOMAIN conversation_store \subseteq DOMAIN conversation_store'
           /\ \A s \in DOMAIN conversation_store' \ {last'.session_id} :
                /\ s \in DOMAIN conversation_store
                /\ conversation_store'[s] = conversation_store[s]
           /\ last'.search_query
                = SearchQuery(last'.question, last'.session_id,
                              OnlySession(conversation_store, last'.session_id))
           /\ last'.ret
                => last'.prompt.history
                    = HistoryText(last'.session_id,
                              OnlySession(conversation_store, last'.session_id))
      ]_vars

\* The first question of session "s2" was answered while session "default"
\* held turns: no history, no expansion, the turns of "default" untouched.
C25_Witness ==
    /\ last.op = "ask_question" /\ last.ret /\ last.session_id = "s2"
    /\ last.question \in VagueQuestions
    /\ "default" \in DOMAIN conversation_store
    /\ Len(conversation_store["default"]) = 2
    /\ Len(conversation_store["s2"]) = 1
    /\ last.prompt.history = ""
    /\ last.search_query = last.question

\* C27: an ask_question call whose retrieval has no results, or in which an
\* exception is caught, leaves conversation_store as it was; no stored turn
\* carries the answer of such a call.
C27_FailedAskLeavesMemory ==
    [][last'.op = "ask_question"
        => /\ ~last'.ret => conversation_store' = conversation_store
           /\ \A s \in DOMAIN conversation_store' :
                \A i \in 1..Len(conversation_store'[s]) :
                    /\ conversation_store'[s][i].answer # NoResultsReply.answer
                    /\ conversation_store'[s][i].answer
                            # FailureReply(IndexErrorText).answer
                    /\ conversation_store'[s][i].sources # <<>>]_vars

\* A question was asked on a cleared store in a session that holds an
\* answered turn: the session still ends with that turn.
C27_Witness ==
    /\ last.op = "ask_question" /\ ~last.ret /\ ~last.raised
    /\ last.session_id \in DOMAIN conversation_store
    /\ Len(conversation_store[last.session_id]) = 1
    /\ NewestTurn.question # last.question
    /\ last.question \in VagueQuestions
    /\ last.search_query = NewestTurn.question \o " " \o last.question

\* The fields of the result of ask_question.
ReplyFields == {"success", "answer", "sources", "relevant_chunks", "error"}

\* What C30 requires of the outcome r of an ask_question call.
WellFormed(r) ==
    /\ DOMAIN r.reply = ReplyFields
    /\ r.reply.success \in BOOLEAN
    /\ r.caught => /\ ~r.reply.success
                   /\ r.reply.sources = <<>>
                   /\ r.reply.relevant_chunks = 0
                   /\ r.reply.error # PyNone
    /\ r.reply.success => r.reply.error = PyNone

\* C30: ask_question returns a result with the five fields whatever fails
\* (a read of the artifacts, the encoder, the language model, a lookup in a
\* misaligned store), and the result of a caught exception has success
\* False, no sources, relevant_chunks 0 and an error that is not None.  The
\* failures SpecAsk does not inject are applied to the states of the first
\* two calls.
C30_NeverRaises ==
    /\ last.op = "ask_question"
        => WellFormed([reply |-> last.reply, caught |-> last.raised])
    /\ asks <= 1
        => \A question \in Questions, session_id \in SessionIds,
              read_fails \in 0..3, encode_fails \in BOOLEAN,
              llm \in LLMOutcomes :
              \A rnd \in Rnd(encode_fails, 1) :
                WellFormed(ask_question(CurMem, CurDisk, conversation_store,
                                question, DefaultK, session_id, read_fails,
                                encode_fails, rnd, llm))

\* A lookup in the misaligned store raised inside ask_question and the
\* caller got the failure result.
C30_Witness ==
    /\ last.op = "ask_question" /\ last.raised
    /\ last.reply = FailureReply(IndexErrorText)
    /\ Len(metadata) < Len(documents)

----------------------------------------------------------------------------
(* The store under two threads, checked under SpecRace *)

\* The remover has assigned the rebuilt index and not yet self.documents.
InRebuildWindow ==
    /\ remover.op = "remove_document"
    /\ remover.pc = "set_documents"
    /\ remover.new_documents # <<>>

\* C24: the store performs no mutual exclusion: while a remove_document or
\* clear call is under way a search call can start and every step of a
\* search under way can be taken; and between the assignment of the rebuilt
\* index and that of self.documents the index holds one vector per kept
\* chunk, fewer than the documents array still holds.
C24_NoMutualExclusion ==
    /\ (remover.pc \notin {"idle", "done"}
            /\ searcher.pc \in {"idle", "done"} /\ calls < MaxCalls)
        => ENABLED (\E query \in Queries, k \in 1..MaxK :
                        search_begin(query, k))
    /\ (searcher.pc \notin {"idle", "done"}) => ENABLED SearchSteps
    /\ InRebuildWindow
        => /\ ntotal(index) = Len(remover.new_documents)
           /\ ntotal(index) < Len(documents)

\* A search that ran between the two assignments of a remove_document call
\* saw an index of another size than the documents array and returned,
\* without raising, a chunk whose embedding is not at the distance reported
\* for the matched vector.
C24_Witness ==
    /\ searcher.pc = "done" /\ ~searcher.raised
    /\ searcher.ntotal # searcher.ndocs
    /\ \E j \in 1..Len(searcher.results) :
        searcher.results[j].score
            # L2(Embed(searcher.results[j].document.text),
                 Embed(searcher.query))

====
